---- MODULE Spec2Model ----
(***************************************************************************)
(* A model of parse_rs: the position-tracking Tokenizer (src/tokenizer.rs) *)
(* and the recursive-descent grammar rules built on it (src/main.rs).      *)
(*                                                                         *)
(* A source text is a sequence of characters; a character is a one-letter  *)
(* string.  Byte offsets are kept apart from character counts: the         *)
(* character "é" stands for the two-byte characters of UTF-8.              *)
(***************************************************************************)
EXTENDS Integers, Sequences, FiniteSets, TLC

VARIABLES source, location, last

vars == <<source, location, last>>

(***************************************************************************)
(* Bounds of the model.                                                    *)
(***************************************************************************)
\* longest generated source text of the tokenizer specification
MaxLen == 3
\* longest generated source text of the grammar specification
MaxSrc == 3

(***************************************************************************)
(* Characters.                                                             *)
(***************************************************************************)
Whitespace == {" ", "\n", "\r", "\t"}

Digits == {"0", "1", "2", "3", "4", "5", "6", "7", "8", "9"}

HexLetters == {"a", "b", "c", "d", "e", "f", "A", "B", "C", "D", "E", "F"}

Letters ==
  HexLetters \cup {"g", "h", "i", "l", "n", "o", "r", "t", "u", "v", "x",
                   "H", "W", "é"}

\* char::is_whitespace
IsWhitespace(c) == c \in Whitespace

\* char::is_alphanumeric
IsAlphanumeric(c) == c \in Letters \cup Digits

\* char::is_numeric
IsNumeric(c) == c \in Digits

\* char::is_digit(16)
IsHexDigit(c) == c \in Digits \cup HexLetters

\* char::len_utf8
Utf8Len(c) == IF c = "é" THEN 2 ELSE 1

CharIsIdent(c) == IsAlphanumeric(c) \/ c = "_"

\* the closures the callers hand to peek_while / consume_while
Sat(f, c) ==
  CASE f = "not_whitespace" -> ~IsWhitespace(c)
    [] f = "char_is_ident" -> CharIsIdent(c)
    [] f = "numeric_or_underscore" -> IsNumeric(c) \/ c = "_"

RECURSIVE ByteLen(_)
\* str::len: the length of a text in bytes
ByteLen(s) == IF s = <<>> THEN 0 ELSE Utf8Len(Head(s)) + ByteLen(Tail(s))

\* str::is_char_boundary
IsCharBoundary(s, i) == \E k \in 0..Len(s) : ByteLen(SubSeq(s, 1, k)) = i

\* &s[i..] for a byte offset i that is a character boundary
SliceFrom(s, i) ==
  LET k == CHOOSE k \in 0..Len(s) : ByteLen(SubSeq(s, 1, k)) = i
  IN  SubSeq(s, k + 1, Len(s))

\* &s[..n] for a byte length n that is a character boundary
SliceTo(s, n) ==
  LET k == CHOOSE k \in 0..Len(s) : ByteLen(SubSeq(s, 1, k)) = n
  IN  SubSeq(s, 1, k)

(***************************************************************************)
(* Location, Span, Token, Error (src/token.rs).                            *)
(***************************************************************************)
Zero == [line |-> 0, column |-> 0, index |-> 0]

MkSpan(start, end) == [start |-> start, end |-> end]

SpanLen(span) == span.end.index - span.start.index

NoSpan == MkSpan(Zero, Zero)

MkError(loc, fmt, arg) ==
  [location |-> loc, message |-> [fmt |-> fmt, arg |-> arg]]

NoErr == MkError(Zero, "", <<>>)

(***************************************************************************)
(* Tokenizer (src/tokenizer.rs).  Every operation takes the source and the *)
(* cursor cell's Location and returns, in loc, the cell's Location after   *)
(* the call, beside what the call returns.                                 *)
(***************************************************************************)
Adv(l, c) ==
  IF c = "\n"
  THEN [line |-> l.line + 1, column |-> 0, index |-> l.index + Utf8Len(c)]
  ELSE [line |-> l.line, column |-> l.column + 1,
        index |-> l.index + Utf8Len(c)]

RECURSIVE AdvAll(_, _)
\* for c in s.chars() { Self::adv(&mut end, c) }
AdvAll(l, s) == IF s = <<>> THEN l ELSE AdvAll(Adv(l, Head(s)), Tail(s))

RECURSIVE ShimmyLoop(_, _)
ShimmyLoop(chars, loc) ==
  IF chars # <<>> /\ IsWhitespace(Head(chars))
  THEN ShimmyLoop(Tail(chars), Adv(loc, Head(chars)))
  ELSE loc

Shimmy(src, loc) == ShimmyLoop(SliceFrom(src, loc.index), loc)

\* what an operation returns: the cell afterwards, Some / None / Panic (or
\* True / False, or Err), and the Span, the content or the Error it carries
TR(loc, kind, span, content) ==
  [loc |-> loc, kind |-> kind, span |-> span, content |-> content,
   err |-> NoErr]

Cursor(src, loc) ==
  LET l == Shimmy(src, loc)
  IN  TR(l, "Some", NoSpan, SliceFrom(src, l.index))

Location(src, loc) == Shimmy(src, loc)

HasMoreTokens(src, loc) ==
  LET c == Cursor(src, loc)
  IN  TR(c.loc, IF c.content # <<>> THEN "True" ELSE "False", NoSpan, <<>>)

Peek(src, loc) ==
  LET c == Cursor(src, loc)
  IN  IF c.content = <<>>
      THEN TR(c.loc, "None", NoSpan, <<>>)
      ELSE TR(c.loc, "Some", NoSpan, <<Head(c.content)>>)

Advance(src, loc) ==
  LET p == Peek(src, loc)
  IN  IF p.kind = "None"
      THEN p
      ELSE TR(Adv(p.loc, p.content[1]), "Some", NoSpan, p.content)

RECURSIVE TakeWhile(_, _, _)
\* the end Location after adv over chars.take_while(f)
TakeWhile(f, chars, end) ==
  IF chars # <<>> /\ Sat(f, Head(chars))
  THEN TakeWhile(f, Tail(chars), Adv(end, Head(chars)))
  ELSE end

\* mutant of PeekWhile: the cursor cell is left at the end of the run
PeekWhileCommits(src, loc, f) ==
  LET c == Cursor(src, loc)
      start == c.loc
      end == TakeWhile(f, c.content, start)
  IN  IF start # end
      THEN TR(end, "Some", MkSpan(start, end), <<>>)
      ELSE TR(start, "None", NoSpan, <<>>)

PeekWhile(src, loc, f) ==
  LET c == Cursor(src, loc)
      start == c.loc
      end == TakeWhile(f, c.content, start)
  IN  IF start # end
      THEN TR(start, "Some", MkSpan(start, end), <<>>)
      ELSE TR(start, "None", NoSpan, <<>>)

PeekWord(src, loc) == PeekWhile(src, loc, "not_whitespace")

CursorFor(src, loc) ==
  IF loc.index < ByteLen(src)
  THEN [kind |-> "Some", str |-> SliceFrom(src, loc.index)]
  ELSE [kind |-> "None", str |-> <<>>]

\* mutant of LexFor: the slice is cut at span.end.index, not at span.len()
LexForEndAsLen(src, span) ==
  LET c == CursorFor(src, span.start)
  IN  IF c.kind = "None" \/ ~(span.end.index <= ByteLen(c.str))
      THEN [kind |-> "None", str |-> <<>>]
      ELSE IF IsCharBoundary(c.str, span.end.index)
           THEN [kind |-> "Some", str |-> SliceTo(c.str, span.end.index)]
           ELSE [kind |-> "Panic", str |-> <<>>]

\* a slice that does not end on a character boundary panics
LexFor(src, span) ==
  LET c == CursorFor(src, span.start)
  IN  IF c.kind = "None" \/ ~(SpanLen(span) <= ByteLen(c.str))
      THEN [kind |-> "None", str |-> <<>>]
      ELSE IF IsCharBoundary(c.str, SpanLen(span))
           THEN [kind |-> "Some", str |-> SliceTo(c.str, SpanLen(span))]
           ELSE [kind |-> "Panic", str |-> <<>>]

RECURSIVE WordSpanLoop(_, _, _)
\* the for loop of word_span: the literal's characters against the cursor's
WordSpanLoop(s, cursor, end) ==
  IF s = <<>>
  THEN [ok |-> TRUE, end |-> end, rest |-> cursor]
  ELSE IF cursor = <<>> \/ Head(s) # Head(cursor)
       THEN [ok |-> FALSE, end |-> end, rest |-> cursor]
       ELSE WordSpanLoop(Tail(s), Tail(cursor), Adv(end, Head(s)))

\* mutant of WordSpan: the character after the literal is not looked at
WordSpanNoBoundary(src, loc, s) ==
  LET start == Shimmy(src, loc)
      m == WordSpanLoop(s, SliceFrom(src, start.index), start)
  IN  IF ~m.ok
      THEN TR(start, "None", NoSpan, <<>>)
      ELSE TR(start, "Some", MkSpan(start, m.end), <<>>)

WordSpan(src, loc, s) ==
  LET start == Shimmy(src, loc)
      m == WordSpanLoop(s, SliceFrom(src, start.index), start)
  IN  IF ~m.ok \/ (m.rest # <<>> /\ ~IsWhitespace(Head(m.rest)))
      THEN TR(start, "None", NoSpan, <<>>)
      ELSE TR(start, "Some", MkSpan(start, m.end), <<>>)

MatchWord(src, loc, s) ==
  LET w == WordSpan(src, loc, s)
  IN  TR(w.loc, IF w.kind = "Some" THEN "True" ELSE "False", NoSpan, <<>>)

ConsumeWord(src, loc, s) ==
  LET w == WordSpan(src, loc, s)
      lex == LexFor(src, w.span)
  IN  IF w.kind = "None"
      THEN w
      ELSE IF lex.kind = "Some"
           THEN TR(w.span.end, "Some", w.span, lex.str)
           ELSE TR(w.span.end, "Panic", NoSpan, <<>>)

RECURSIVE PeekStrLoop(_, _, _)
\* the for loop of peek_str over cursor.chars().zip(str.chars())
PeekStrLoop(cursor, str, end) ==
  IF cursor = <<>> \/ str = <<>>
  THEN [ok |-> TRUE, end |-> end]
  ELSE IF Head(cursor) # Head(str)
       THEN [ok |-> FALSE, end |-> end]
       ELSE PeekStrLoop(Tail(cursor), Tail(str), Adv(end, Head(cursor)))

PeekStr(src, loc, str) ==
  LET start == Location(src, loc)
      m == PeekStrLoop(SliceFrom(src, start.index), str, start)
  IN  IF m.ok /\ start # m.end
      THEN TR(start, "Some", MkSpan(start, m.end), <<>>)
      ELSE TR(start, "None", NoSpan, <<>>)

ConsumeWhile(src, loc, f) ==
  LET start == Location(src, loc)
      end == TakeWhile(f, SliceFrom(src, start.index), start)
      span == MkSpan(start, end)
      lex == LexFor(src, span)
  IN  IF start = end
      THEN TR(start, "None", NoSpan, <<>>)
      ELSE IF lex.kind = "Some"
           THEN TR(end, "Some", span, lex.str)
           ELSE TR(end, "Panic", NoSpan, <<>>)

\* mutant of ConsumeEnd: the end is counted from Location::zero()
ConsumeEndFromZero(start, s) == AdvAll(Zero, s)

\* let mut end = start; for c in s.chars() { Self::adv(&mut end, c) }
ConsumeEnd(start, s) == AdvAll(start, s)

Consume(src, loc, s) ==
  LET p == PeekStr(src, loc, s)
      start == p.loc
      end == ConsumeEnd(start, s)
      span == MkSpan(start, end)
      lex == LexFor(src, span)
  IN  IF p.kind = "None"
      THEN p
      ELSE IF lex.kind = "Some"
           THEN TR(end, "Some", span, lex.str)
           ELSE TR(end, "Panic", NoSpan, <<>>)

\* the message is format!("Expected `{s:?}`"): its text and the literal in it
Expect(src, loc, s) ==
  LET start == Location(src, loc)
      c == Consume(src, start, s)
  IN  IF c.kind = "None"
      THEN [c EXCEPT !.kind = "Err",
                     !.err = MkError(start, "Expected {s:?}", s)]
      ELSE c

(***************************************************************************)
(* The grammar rules (src/main.rs, mod ast).  A rule takes the source and  *)
(* the Tokenizer t: its cursor cell loc and, as a history of the call, the *)
(* sequence raised of the Errors constructed so far.  It returns           *)
(*   Ok      Ok(val)                                                       *)
(*   NoMatch Err(None)                                                     *)
(*   Fail    Err(Some(err))                                                *)
(*   Panic   the call panicked (todo!(), unwrap() or expect() of a None)   *)
(* and the Tokenizer afterwards.                                           *)
(***************************************************************************)
At(t, loc) == [t EXCEPT !.loc = loc]

NoVal == [t |-> "none"]

\* Token { span, content }; owned tells Cow::Owned from Cow::Borrowed
Token(span, content, owned) ==
  [t |-> "Token", span |-> span, content |-> content, owned |-> owned]

\* the Token an Option<Token> of the Tokenizer holds
TokenOf(r) == Token(r.span, r.content, FALSE)

Ok(t, val) == [kind |-> "Ok", tok |-> t, err |-> NoErr, val |-> val]

NoMatch(t) == [kind |-> "NoMatch", tok |-> t, err |-> NoErr, val |-> NoVal]

Panicked(t) == [kind |-> "Panic", tok |-> t, err |-> NoErr, val |-> NoVal]

\* Err(Some(Error { .. })) of an Error constructed here
Raise(t, e) ==
  [kind |-> "Fail", tok |-> [t EXCEPT !.raised = Append(@, e)], err |-> e,
   val |-> NoVal]

\* the three arms of optional!: Some(i), None, return Err(Some(e)); a panic
\* leaves the rule as a return does
Optional(r) ==
  CASE r.kind = "Ok" -> "some"
    [] r.kind = "NoMatch" -> "none"
    [] OTHER -> "return"

\* mutant of Required: the sub-rule's Error is replaced by the caller's
RequiredOverwrites(src, r, fmt, arg) ==
  IF r.kind \in {"NoMatch", "Fail"}
  THEN Raise(At(r.tok, Location(src, r.tok.loc)),
             MkError(Location(src, r.tok.loc), fmt, arg))
  ELSE r

\* .map_err(required(tok, || format!(fmt, arg))) applied to a rule's result
Required(src, r, fmt, arg) ==
  IF r.kind = "NoMatch"
  THEN Raise(At(r.tok, Location(src, r.tok.loc)),
             MkError(Location(src, r.tok.loc), fmt, arg))
  ELSE r

\* the value bound by a let: The({e : x \in {v}}) is `let x = v; e`, with v
\* evaluated once
The(S) == CHOOSE y \in S : TRUE

\* &src[a..b]: panics off a character boundary
StrSlice(src, a, b) ==
  IF a <= b /\ b <= ByteLen(src) /\ IsCharBoundary(src, a)
       /\ IsCharBoundary(src, b)
  THEN [kind |-> "Some", str |-> SliceTo(SliceFrom(src, a), b - a)]
  ELSE [kind |-> "Panic", str |-> <<>>]

HexVal(c) ==
  CASE c = "0" -> 0 [] c = "1" -> 1 [] c = "2" -> 2 [] c = "3" -> 3
    [] c = "4" -> 4 [] c = "5" -> 5 [] c = "6" -> 6 [] c = "7" -> 7
    [] c = "8" -> 8 [] c = "9" -> 9
    [] c \in {"a", "A"} -> 10 [] c \in {"b", "B"} -> 11
    [] c \in {"c", "C"} -> 12 [] c \in {"d", "D"} -> 13
    [] c \in {"e", "E"} -> 14 [] c \in {"f", "F"} -> 15

RECURSIVE HexNumber(_, _)
HexNumber(s, acc) ==
  IF s = <<>> THEN acc ELSE HexNumber(Tail(s), acc * 16 + HexVal(Head(s)))

\* u32::from_str_radix(content, 16): an optional `+`, then one hex digit or
\* more
FromStrRadix(content) ==
  LET digits == IF content # <<>> /\ Head(content) = "+"
                THEN Tail(content) ELSE content
  IN  IF digits # <<>> /\ \A k \in 1..Len(digits) : IsHexDigit(digits[k])
      THEN [kind |-> "Ok", value |-> HexNumber(digits, 0)]
      ELSE [kind |-> "Err", value |-> 0]

\* the character of a code point, written as the model writes characters
CharOf(n) ==
  CASE n = 9 -> "\t" [] n = 10 -> "\n" [] n = 13 -> "\r" [] n = 32 -> " "
    [] n = 34 -> "\"" [] n = 48 -> "0" [] n = 49 -> "1" [] n = 65 -> "A"
    [] n = 92 -> "\\" [] n = 97 -> "a" [] n = 233 -> "é"
    [] OTHER -> "U+" \o ToString(n)

\* char::from_u32: None for a surrogate and above 0x10FFFF
FromU32(n) ==
  IF n \in 55296..57343 \/ n > 1114111
  THEN [kind |-> "None", ch |-> ""]
  ELSE [kind |-> "Some", ch |-> CharOf(n)]

RECURSIVE RadixDigits(_, _, _)
\* the for loop of radix_escape: count digits, each taken from the cursor
RadixDigits(count, cursor, loc) ==
  IF count = 0
  THEN [ok |-> TRUE, cursor |-> cursor, loc |-> loc]
  ELSE IF cursor # <<>> /\ IsHexDigit(Head(cursor))
       THEN RadixDigits(count - 1, Tail(cursor), Adv(loc, Head(cursor)))
       ELSE [ok |-> FALSE, cursor |-> cursor, loc |-> loc]

EscResult(kind, ch, cursor, end, err) ==
  [kind |-> kind, ch |-> ch, cursor |-> cursor, end |-> end, err |-> err]

\* let content = &src[start.index..end.index]; from_str_radix(..).unwrap();
\* char::from_u32(..).unwrap()
RadixValue(src, start, end) ==
  The({(IF content.kind # "Some"
        THEN [kind |-> "None", ch |-> ""]
        ELSE The({(IF value.kind # "Ok"
                   THEN [kind |-> "None", ch |-> ""]
                   ELSE FromU32(value.value))
                  : value \in {FromStrRadix(content.str)}}))
       : content \in {StrSlice(src, start.index, end.index)}})

RadixEscape(count, cursor, loc, src) ==
  IF cursor = <<>> \/ Head(cursor) # "{"
  THEN EscResult("Err", "", cursor, loc, MkError(loc, "Expected '{{'", <<>>))
  ELSE
    The({(IF ~d.ok
          THEN EscResult("Err", "", cursor, d.loc,
                         MkError(d.loc, "Expected {}-radix digit",
                                 <<"1", "6">>))
          ELSE IF d.cursor = <<>> \/ Head(d.cursor) # "}"
          THEN EscResult("Err", "", cursor, d.loc,
                         MkError(d.loc, "Expected '}}'", <<>>))
          ELSE The({(IF ch.kind # "Some"
                     THEN EscResult("Panic", "", cursor, Adv(d.loc, "}"),
                                    NoErr)
                     ELSE EscResult("Ok", ch.ch, Tail(d.cursor),
                                    Adv(d.loc, "}"), NoErr))
                    : ch \in {RadixValue(src, Adv(loc, "{"), d.loc)}}))
         : d \in {RadixDigits(count, Tail(cursor), Adv(loc, "{"))}})

\* the match on the escape letter c: the character pushed, and what the
\* escape took from the cursor
Escape(c, cursor, end, src) ==
  CASE c = "n" -> EscResult("Ok", "\n", cursor, end, NoErr)
    [] c = "r" -> EscResult("Ok", "\r", cursor, end, NoErr)
    [] c = "t" -> EscResult("Ok", "\t", cursor, end, NoErr)
    [] c = "\\" -> EscResult("Ok", "\\", cursor, end, NoErr)
    [] c = "\"" -> EscResult("Ok", "\"", cursor, end, NoErr)
    [] c \in {"u", "x"} ->
         RadixEscape(IF c = "u" THEN 4 ELSE 2, cursor, end, src)
    [] OTHER -> EscResult("Panic", "", cursor, end, NoErr)

\* what follows the while loop of parse_expr_str once terminated
StrFinish(src, t, content, start, end, content_start) ==
  The({(IF substring.kind # "Some"
        THEN Panicked(t)
        ELSE IF content.some
        THEN Ok(t, Token(MkSpan(start, end), content.str \o substring.str,
                         TRUE))
        ELSE Ok(t, Token(MkSpan(start, end), substring.str, FALSE)))
       : substring \in {LexFor(src, MkSpan(content_start, end))}})

RECURSIVE StrLoop(_, _, _, _, _, _, _)

\* the body of the loop from the escape letter e on; rest is the cursor
\* after e
StrEscape(src, t, e, rest, content, start, end, content_start) ==
  The({(IF segment.kind # "Some"
        THEN Panicked(t)
        ELSE The({(IF esc.kind = "Err"
                   THEN Raise(t, esc.err)
                   ELSE IF esc.kind = "Panic"
                   THEN Panicked(t)
                   ELSE StrLoop(src, t, esc.cursor,
                                [some |-> TRUE,
                                 str |-> Append(content.str \o segment.str,
                                                esc.ch)],
                                start, esc.end, esc.end))
                  : esc \in {Escape(e, rest, end, src)}}))
       : segment \in {LexFor(src, MkSpan(content_start, end))}})

\* the while loop of parse_expr_str: cursor is the character iterator,
\* content the Option<String>
StrLoop(src, t, cursor, content, start, end, content_start) ==
  IF cursor = <<>>
  THEN Raise(t, MkError(end, "Expected {:?}", <<"\"">>))
  ELSE IF Head(cursor) \in {"\r", "\n"}
  THEN Raise(t, MkError(end, "unterminated string", <<>>))
  ELSE IF Head(cursor) = "\""
  THEN StrFinish(src, t, content, start, end, content_start)
  ELSE IF Head(cursor) # "\\"
  THEN StrLoop(src, t, Tail(cursor),
               IF content.some
               THEN [content EXCEPT !.str = Append(@, Head(cursor))]
               ELSE content,
               start, end, content_start)
  ELSE IF Tail(cursor) = <<>>
  THEN Raise(t, MkError(end, "Expected {:?}", <<"\"">>))
  ELSE StrEscape(src, t, cursor[2], Tail(Tail(cursor)), content, start,
                 Adv(end, cursor[2]), content_start)

ParseExprStr(src, t) ==
  The({(IF p.kind = "None"
        THEN NoMatch(At(t, p.loc))
        ELSE StrLoop(src, At(t, p.loc), Tail(Cursor(src, p.loc).content),
                     [some |-> FALSE, str |-> <<>>], Location(src, p.loc),
                     Adv(Location(src, p.loc), "\""),
                     Adv(Location(src, p.loc), "\"")))
       : p \in {PeekStr(src, t.loc, <<"\"">>)}})

ParseExprPrimary(src, t) ==
  The({(IF num.kind = "Some"
        THEN Ok(At(t, num.loc), [t |-> "Num", tok |-> TokenOf(num)])
        ELSE IF num.kind = "Panic"
        THEN Panicked(At(t, num.loc))
        ELSE The({(CASE Optional(string) = "some" ->
                          Ok(string.tok, [t |-> "Str", tok |-> string.val])
                     [] Optional(string) = "none" -> NoMatch(string.tok)
                     [] OTHER -> string)
                  : string \in {ParseExprStr(src, At(t, num.loc))}}))
       : num \in {ConsumeWhile(src, t.loc, "numeric_or_underscore")}})

\* the operator table of a binary_impl! instance
LexTerms(level) ==
  IF level = "cmp"
  THEN <<[lex |-> "<", variant |-> "Lt"]>>
  ELSE <<[lex |-> "+", variant |-> "Add"], [lex |-> "-", variant |-> "Sub"]>>

\* LEX_TERMS.join(" or ")
LexTermsJoined(level) ==
  IF level = "cmp" THEN <<"<">> ELSE <<"+", " ", "o", "r", " ", "-">>

RECURSIVE TryTerms(_, _, _, _)
\* the if / else if chain of the loop: the first operator that consume takes
TryTerms(src, t, terms, i) ==
  The({(IF c.kind # "None"
        THEN [hit |-> i, kind |-> c.kind, tok |-> At(t, c.loc)]
        ELSE IF i = Len(terms)
        THEN [hit |-> 0, kind |-> c.kind, tok |-> At(t, c.loc)]
        ELSE TryTerms(src, At(t, c.loc), terms, i + 1))
       : c \in {Consume(src, t.loc, <<terms[i].lex>>)}})

RECURSIVE BinaryImpl(_, _, _)
RECURSIVE BinaryLoop(_, _, _, _)

\* $child of a binary_impl! instance
Child(src, t, level) ==
  IF level = "cmp" THEN BinaryImpl(src, t, "term") ELSE ParseExprPrimary(src, t)

BinaryLoop(src, t, level, out) ==
  The({(IF m.kind = "Panic"
        THEN Panicked(m.tok)
        ELSE IF m.hit = 0
        THEN Ok(m.tok, out)
        ELSE The({(IF rhs.kind # "Ok"
                   THEN rhs
                   ELSE BinaryLoop(src, rhs.tok, level,
                                   [t |-> LexTerms(level)[m.hit].variant,
                                    lhs |-> out, rhs |-> rhs.val]))
                  : rhs \in {Required(src, Child(src, m.tok, level),
                                      "expected binary expression: {}",
                                      LexTermsJoined(level))}}))
       : m \in {TryTerms(src, t, LexTerms(level), 1)}})

BinaryImpl(src, t, level) ==
  The({(IF first.kind # "Ok"
        THEN first
        ELSE BinaryLoop(src, first.tok, level, first.val))
       : first \in {Child(src, t, level)}})

ParseExprCmp(src, t) == BinaryImpl(src, t, "cmp")

ParseExprTerm(src, t) == BinaryImpl(src, t, "term")

\* todo!()
ParseExpr(src, t) == Panicked(t)

RECURSIVE ParseType(_, _)
RECURSIVE ParseFnType(_, _)
RECURSIVE FnArgs(_, _, _)
RECURSIVE Stars(_, _, _)
RECURSIVE StarsUnwrapped(_, _, _)

\* mutant of Stars: the `*` markers are consumed and the type is left as it is
StarsUnwrapped(src, t, out) ==
  The({(IF c.kind = "Some"
        THEN StarsUnwrapped(src, At(t, c.loc), out)
        ELSE IF c.kind = "Panic"
        THEN Panicked(At(t, c.loc))
        ELSE Ok(At(t, c.loc), out))
       : c \in {Consume(src, t.loc, <<"*">>)}})

\* while tok.consume("*").is_some() { out = Type::Ptr(Box::new(out)) }
Stars(src, t, out) ==
  The({(IF c.kind = "Some"
        THEN Stars(src, At(t, c.loc), [t |-> "Ptr", inner |-> out])
        ELSE IF c.kind = "Panic"
        THEN Panicked(At(t, c.loc))
        ELSE Ok(At(t, c.loc), out))
       : c \in {Consume(src, t.loc, <<"*">>)}})

ParseType(src, t) ==
  The({(CASE Optional(func) = "some" ->
               Ok(func.tok, [t |-> "Func", fn |-> func.val])
          [] Optional(func) = "return" -> func
          [] OTHER ->
               The({(IF word.kind = "Some"
                     THEN Stars(src, At(func.tok, word.loc),
                                [t |-> "Name", tok |-> TokenOf(word)])
                     ELSE IF word.kind = "Panic"
                     THEN Panicked(At(func.tok, word.loc))
                     ELSE NoMatch(At(func.tok, word.loc)))
                    : word \in {ConsumeWhile(src, func.tok.loc,
                                             "char_is_ident")}}))
       : func \in {ParseFnType(src, t)}})

\* tok.has_more_tokens() && tok.peek_str(s).is_none(), and the cursor cell
\* after it
MoreBefore(src, loc, s) ==
  The({(IF more.kind = "True"
        THEN The({[loc |-> close.loc, go |-> close.kind = "None"]
                  : close \in {PeekStr(src, more.loc, s)}})
        ELSE [loc |-> more.loc, go |-> FALSE])
       : more \in {HasMoreTokens(src, loc)}})

\* the while loop of parse_fn_type
FnArgs(src, t, args) ==
  The({(IF ~cond.go
        THEN Ok(At(t, cond.loc), args)
        ELSE The({(IF arg.kind # "Ok"
                   THEN arg
                   ELSE The({(IF comma.kind = "None"
                              THEN Ok(At(arg.tok, comma.loc),
                                      Append(args, arg.val))
                              ELSE IF comma.kind = "Panic"
                              THEN Panicked(At(arg.tok, comma.loc))
                              ELSE FnArgs(src, At(arg.tok, comma.loc),
                                          Append(args, arg.val)))
                             : comma \in {Consume(src, arg.tok.loc,
                                                  <<",">>)}}))
                  : arg \in {Required(src, ParseType(src, At(t, cond.loc)),
                                      "expected type", <<>>)}}))
       : cond \in {MoreBefore(src, t.loc, <<")">>)}})

\* parse_fn_type from tok.expect(")") on
FnTypeClose(src, args) ==
  The({(IF close.kind = "Err"
        THEN Raise(At(args.tok, close.loc), close.err)
        ELSE IF close.kind = "Panic"
        THEN Panicked(At(args.tok, close.loc))
        ELSE The({(CASE Optional(ret) = "some" ->
                          Ok(ret.tok, [args |-> args.val, ret |-> ret.val])
                     [] Optional(ret) = "none" ->
                          Ok(ret.tok, [args |-> args.val, ret |-> NoVal])
                     [] OTHER -> ret)
                  : ret \in {ParseType(src, At(args.tok, close.loc))}}))
       : close \in {Expect(src, args.tok.loc, <<")">>)}})

ParseFnType(src, t) ==
  The({(IF open.kind = "None"
        THEN NoMatch(At(t, open.loc))
        ELSE IF open.kind = "Panic"
        THEN Panicked(At(t, open.loc))
        ELSE The({(IF args.kind # "Ok" THEN args
                   ELSE FnTypeClose(src, args))
                  : args \in {FnArgs(src, At(t, open.loc), <<>>)}}))
       : open \in {Consume(src, t.loc, <<"(">>)}})

RECURSIVE ParseStmt(_, _)
RECURSIVE ParseIf(_, _)
RECURSIVE ParseBlock(_, _)
RECURSIVE BlockItems(_, _, _)

\* the while loop of parse_block
BlockItems(src, t, items) ==
  The({(IF ~cond.go
        THEN Ok(At(t, cond.loc), items)
        ELSE The({(IF item.kind # "Ok"
                   THEN item
                   ELSE BlockItems(src, item.tok, Append(items, item.val)))
                  : item \in {Required(src, ParseStmt(src, At(t, cond.loc)),
                                       "Expected statement in block!",
                                       <<>>)}}))
       : cond \in {MoreBefore(src, t.loc, <<"}">>)}})

\* parse_block from tok.expect("}") on
BlockClose(src, left, items) ==
  The({(IF right.kind = "Err"
        THEN Raise(At(items.tok, right.loc), right.err)
        ELSE IF right.kind = "Panic"
        THEN Panicked(At(items.tok, right.loc))
        ELSE Ok(At(items.tok, right.loc),
                [t |-> "Block", left |-> TokenOf(left), items |-> items.val,
                 right |-> TokenOf(right)]))
       : right \in {Expect(src, items.tok.loc, <<"}">>)}})

ParseBlock(src, t) ==
  The({(IF left.kind = "None"
        THEN NoMatch(At(t, left.loc))
        ELSE IF left.kind = "Panic"
        THEN Panicked(At(t, left.loc))
        ELSE The({(IF items.kind # "Ok" THEN items
                   ELSE BlockClose(src, left, items))
                  : items \in {BlockItems(src, At(t, left.loc), <<>>)}}))
       : left \in {Consume(src, t.loc, <<"}">>)}})

\* parse_if from tok.consume_word("else") on
IfOtherwise(src, condition, then) ==
  The({(IF else.kind = "None"
        THEN Ok(At(then.tok, else.loc),
                [t |-> "If", condition |-> condition.val, then |-> then.val,
                 otherwise |-> NoVal])
        ELSE IF else.kind = "Panic"
        THEN Panicked(At(then.tok, else.loc))
        ELSE The({(IF otherwise.kind # "Ok"
                   THEN otherwise
                   ELSE Ok(otherwise.tok,
                           [t |-> "If", condition |-> condition.val,
                            then |-> then.val,
                            otherwise |-> otherwise.val]))
                  : otherwise \in
                      {Required(src,
                                ParseBlock(src, At(then.tok, else.loc)),
                                "expected block", <<>>)}}))
       : else \in {ConsumeWord(src, then.tok.loc, <<"e", "l", "s", "e">>)}})

\* parse_if from parse_expr(tok) on
IfCondition(src, t) ==
  The({(IF condition.kind # "Ok"
        THEN condition
        ELSE The({(IF then.kind # "Ok" THEN then
                   ELSE IfOtherwise(src, condition, then))
                  : then \in {Required(src, ParseBlock(src, condition.tok),
                                       "expected block", <<>>)}}))
       : condition \in {Required(src, ParseExpr(src, t),
                                 "Expected condition", <<>>)}})

ParseIf(src, t) ==
  The({(IF kw.kind = "None"
        THEN NoMatch(At(t, kw.loc))
        ELSE IF kw.kind = "Panic"
        THEN Panicked(At(t, kw.loc))
        ELSE IfCondition(src, At(t, kw.loc)))
       : kw \in {ConsumeWord(src, t.loc, <<"i", "f">>)}})

ParseStmt(src, t) ==
  The({(CASE Optional(block) = "some" ->
               Ok(block.tok, [t |-> "Stmt::Block", block |-> block.val])
          [] Optional(block) = "return" -> block
          [] OTHER ->
               The({(CASE Optional(stmt) = "some" ->
                            Ok(stmt.tok, [t |-> "Stmt::If", stmt |-> stmt.val])
                       [] Optional(stmt) = "return" -> stmt
                       [] OTHER -> NoMatch(stmt.tok))
                    : stmt \in {ParseIf(src, block.tok)}}))
       : block \in {ParseBlock(src, t)}})

\* parse_decl inside if tok.peek_str("(").is_some()
DeclFunc(src, t, name) ==
  The({(IF ty.kind # "Ok"
        THEN ty
        ELSE The({(IF body.kind # "Ok"
                   THEN body
                   ELSE Ok(body.tok,
                           [t |-> "Decl::Func", name |-> TokenOf(name),
                            ty |-> ty.val, body |-> body.val]))
                  : body \in {Required(src, ParseBlock(src, ty.tok),
                                       "expected function body", <<>>)}}))
       : ty \in {Required(src, ParseFnType(src, t),
                          "expected function type", <<>>)}})

ParseDecl(src, t) ==
  The({(IF name.kind = "None"
        THEN NoMatch(At(t, name.loc))
        ELSE IF name.kind = "Panic"
        THEN Panicked(At(t, name.loc))
        ELSE The({(IF open.kind = "Some"
                   THEN DeclFunc(src, At(t, open.loc), name)
                   ELSE NoMatch(At(t, open.loc)))
                  : open \in {PeekStr(src, name.loc, <<"(">>)}}))
       : name \in {ConsumeWhile(src, t.loc, "char_is_ident")}})

(***************************************************************************)
(* The inputs.                                                             *)
(***************************************************************************)
Seqs(S, n) == UNION {[1..k -> S] : k \in 0..n}

\* a letter, a second letter, a blank, a newline and a two-byte letter
TokAlphabet == {"i", "f", " ", "\n", "é"}

TokSources == Seqs(TokAlphabet, MaxLen)

\* the literals handed to peek_str, consume, expect, match_word, consume_word
Literals == {<<"i">>, <<"f">>, <<"é">>, <<"i", "f">>, <<"f", "é">>}

Predicates == {"not_whitespace", "char_is_ident", "numeric_or_underscore"}

\* the Locations of the character boundaries of src, and one past its end
LocArgs(src) ==
  {AdvAll(Zero, SubSeq(src, 1, k)) : k \in 0..Len(src)}
    \cup {Adv(AdvAll(Zero, src), "i")}

\* the spans handed to lex_for: the one returned last, and those that end at
\* the last Location of the source or one past it
SpanArgs(src) ==
  {last.span} \cup
  {MkSpan(a, b) : a \in LocArgs(src),
                  b \in {AdvAll(Zero, src), Adv(AdvAll(Zero, src), "i")}}

(***************************************************************************)
(* The state machine.  source is the Tokenizer's text, location its cursor *)
(* cell, and last the latest call: the operation, its argument, the cell   *)
(* before it (from) and what it returned.                                  *)
(***************************************************************************)
Ret(op, arg, at, r) ==
  [op |-> op, arg |-> arg, at |-> at, from |-> location, kind |-> r.kind,
   span |-> r.span, content |-> r.content, err |-> r.err, val |-> NoVal,
   raised |-> <<>>]

\* a panic unwinds out of the caller: nothing is called after it
Running == last.kind # "Panic"

\* Tokenizer::new
New(src) ==
  /\ source = src
  /\ location = Zero
  /\ last = [op |-> "new", arg |-> <<>>, at |-> NoSpan, from |-> Zero,
             kind |-> "None", span |-> NoSpan, content |-> <<>>,
             err |-> NoErr, val |-> NoVal, raised |-> <<>>]

Init == \E src \in TokSources : New(src)

Call(op, arg, at, r) ==
  /\ Running
  /\ location' = r.loc
  /\ last' = Ret(op, arg, at, r)
  /\ UNCHANGED source

DoCursor == Call("cursor", <<>>, NoSpan, Cursor(source, location))

DoLocation ==
  Call("location", <<>>, NoSpan,
       TR(Location(source, location), "Some", NoSpan, <<>>))

DoHasMoreTokens ==
  Call("has_more_tokens", <<>>, NoSpan, HasMoreTokens(source, location))

DoPeek == Call("peek", <<>>, NoSpan, Peek(source, location))

DoAdvance == Call("advance", <<>>, NoSpan, Advance(source, location))

DoPeekWord == Call("peek_word", <<>>, NoSpan, PeekWord(source, location))

DoPeekWhile ==
  \E f \in Predicates :
    Call("peek_while", <<f>>, NoSpan, PeekWhile(source, location, f))

DoConsumeWhile ==
  \E f \in Predicates :
    Call("consume_while", <<f>>, NoSpan, ConsumeWhile(source, location, f))

DoPeekStr ==
  \E s \in Literals : Call("peek_str", s, NoSpan, PeekStr(source, location, s))

DoMatchWord ==
  \E s \in Literals :
    Call("match_word", s, NoSpan, MatchWord(source, location, s))

DoConsumeWord ==
  \E s \in Literals :
    Call("consume_word", s, NoSpan, ConsumeWord(source, location, s))

DoConsume ==
  \E s \in Literals : Call("consume", s, NoSpan, Consume(source, location, s))

DoExpect ==
  \E s \in Literals : Call("expect", s, NoSpan, Expect(source, location, s))

DoCursorFor ==
  \E l \in LocArgs(source) :
    LET c == CursorFor(source, l)
    IN  Call("cursor_for", <<>>, MkSpan(l, l),
             TR(location, c.kind, NoSpan, c.str))

DoLexFor ==
  \E sp \in SpanArgs(source) :
    LET c == LexFor(source, sp)
    IN  Call("lex_for", <<>>, sp, TR(location, c.kind, NoSpan, c.str))

Next ==
  \/ DoCursor
  \/ DoLocation
  \/ DoHasMoreTokens
  \/ DoPeek
  \/ DoAdvance
  \/ DoPeekWord
  \/ DoPeekWhile
  \/ DoConsumeWhile
  \/ DoPeekStr
  \/ DoMatchWord
  \/ DoConsumeWord
  \/ DoConsume
  \/ DoExpect
  \/ DoCursorFor
  \/ DoLexFor

Spec == Init /\ [][Next]_vars

(***************************************************************************)
(* The grammar specification: the rules (and advance, which puts the       *)
(* cursor at every character) called on one Tokenizer.                     *)
(***************************************************************************)
\* an identifier character, the delimiters, a quote, a digit, an operator, a
\* blank and a newline
ParseAlphabet == {"a", "(", ")", "}", "\"", "1", "+", " ", "\n"}

\* the inputs of the tests of src/main.rs and of spec.md, and one input for
\* each rule that the generated texts are too short for
Examples ==
  {<<"i", "n", "t">>,
   <<"i", "n", "t", "*", "*">>,
   <<"(", "i", "n", "t", ",", "c", "h", "a", "r", "*", "*", ")", "i", "n",
     "t">>,
   <<"(", "(", "i", "n", "t", ",", "v", "o", "i", "d", "*", ")", "b", "o",
     "o", "l", ",", "v", "o", "i", "d", "*", ")">>,
   <<"\"", "\"">>,
   <<"\"", "H", "e", "l", "l", "o", " ", "W", "o", "r", "l", "d", "!", "\"">>,
   <<"i", "f", " ", "1", " ", "}", "}">>,
   <<"f", "(", "i", "n", "t", ")", "}", "}">>,
   <<"f", "(", "i", "n", "t", ")">>,
   <<"f", "(", "(", "a">>,
   <<"1", "-", "2", "-", "3">>,
   <<"1", "+", "2", "<", "3">>,
   <<"1", "+", "2", "<">>,
   <<"1", "+", "\"", "a", "b", "\n">>,
   <<"\"", "a", "\\", "n", "\"">>,
   <<"(", "a", ",", ")">>,
   <<"\"", "a", "\"", "+", "1">>}

ParseSources == Seqs(ParseAlphabet, MaxSrc) \cup Examples

ParseInit == \E src \in ParseSources : New(src)

Rules ==
  {"parse_decl", "parse_type", "parse_fn_type", "parse_stmt", "parse_if",
   "parse_block", "parse_expr_primary", "parse_expr_str", "parse_expr_term",
   "parse_expr_cmp"}

\* the Tokenizer a rule is handed: the cursor cell, and no Error raised yet
Tok == [loc |-> location, raised |-> <<>>]

Rule(op, r) ==
  /\ Running
  /\ location' = r.tok.loc
  /\ last' = [op |-> op, arg |-> <<>>, at |-> NoSpan, from |-> location,
              kind |-> r.kind, span |-> NoSpan, content |-> <<>>,
              err |-> r.err, val |-> r.val, raised |-> r.tok.raised]
  /\ UNCHANGED source

DoParseDecl == Rule("parse_decl", ParseDecl(source, Tok))

DoParseType == Rule("parse_type", ParseType(source, Tok))

DoParseFnType == Rule("parse_fn_type", ParseFnType(source, Tok))

DoParseStmt == Rule("parse_stmt", ParseStmt(source, Tok))

DoParseIf == Rule("parse_if", ParseIf(source, Tok))

DoParseBlock == Rule("parse_block", ParseBlock(source, Tok))

DoParseExprPrimary ==
  Rule("parse_expr_primary", ParseExprPrimary(source, Tok))

DoParseExprStr == Rule("parse_expr_str", ParseExprStr(source, Tok))

DoParseExprTerm == Rule("parse_expr_term", ParseExprTerm(source, Tok))

DoParseExprCmp == Rule("parse_expr_cmp", ParseExprCmp(source, Tok))

ParseNext ==
  \/ DoAdvance
  \/ DoParseDecl
  \/ DoParseType
  \/ DoParseFnType
  \/ DoParseStmt
  \/ DoParseIf
  \/ DoParseBlock
  \/ DoParseExprPrimary
  \/ DoParseExprStr
  \/ DoParseExprTerm
  \/ DoParseExprCmp

ParseSpec == ParseInit /\ [][ParseNext]_vars

(***************************************************************************)
(* The string literal specification: parse_expr_str (and advance, which    *)
(* puts the cursor at every character) called on texts that open with a    *)
(* quote.                                                                  *)
(***************************************************************************)
\* longest generated body of a string literal
MaxBody == 4

\* an ordinary character that is no escape letter, an escape letter, the
\* backslash, the quote and a raw newline
StrAlphabet == {"a", "n", "\\", "\"", "\n"}

\* literals with \x and \u escapes, a carriage return, a two-byte character,
\* leading whitespace, and the literals of the tests of src/main.rs
StrExamples ==
  {<<"\"", "H", "e", "l", "l", "o", " ", "W", "o", "r", "l", "d", "!", "\"">>,
   <<" ", "\"", "a", "\"">>,
   <<"\"", "a", "\r", "\"">>,
   <<"\"", "\\", "t", "\\", "r", "\"">>,
   <<"\"", "é", "\\", "n", "\"">>,
   <<"\"", "\\", "x", "{", "4", "1", "}", "\"">>,
   <<"\"", "\\", "u", "{", "0", "0", "4", "1", "}", "\"">>,
   <<"\"", "a", "a", "4", "1", "\\", "x", "{", "0", "0", "}", "\"">>,
   <<"\"", "a", "a", "D", "8", "0", "0", "\\", "u", "{", "0", "0", "0", "0",
     "}", "\"">>,
   <<"\"", "\\", "x", "4", "1", "\"">>,
   <<"\"", "\\", "x", "{", "4", "g", "}", "\"">>,
   <<"\"", "\\", "x", "{", "4", "1", "1", "}", "\"">>,
   <<"\"", "\\", "u", "{", "4", "1", "}", "\"">>}

StrSources ==
  {<<"\"">> \o body : body \in Seqs(StrAlphabet, MaxBody)} \cup StrExamples

StrInit == \E src \in StrSources : New(src)

StrNext ==
  \/ DoAdvance
  \/ DoParseExprStr

StrSpec == StrInit /\ [][StrNext]_vars

(***************************************************************************)
(* What the properties are stated in: the source text itself, read without *)
(* the Tokenizer.                                                          *)
(***************************************************************************)
RECURSIVE Utf8(_)
\* the bytes of a text: byte k of character c is <<c, k>>
Utf8(s) ==
  IF s = <<>>
  THEN <<>>
  ELSE [k \in 1..Utf8Len(Head(s)) |-> <<Head(s), k>>] \o Utf8(Tail(s))

\* the number of characters of src that start before byte offset i
CharsBefore(src, i) ==
  Cardinality({k \in 1..Len(src) : ByteLen(SubSeq(src, 1, k - 1)) < i})

\* the first character position at or after byte offset i that holds no
\* whitespace (Len(src) + 1 when there is none)
FirstNonWs(src, i) ==
  LET from == CharsBefore(src, i) + 1
      stops == {k \in from..Len(src) : ~IsWhitespace(src[k])}
  IN  IF stops = {} THEN Len(src) + 1
      ELSE CHOOSE k \in stops : \A j \in stops : k <= j

\* the byte offset of the first non-whitespace character at or after i
PostWsIndex(src, i) == ByteLen(SubSeq(src, 1, FirstNonWs(src, i) - 1))

\* the text that remains after the whitespace at byte offset i
PostWsText(src, i) == SubSeq(src, FirstNonWs(src, i), Len(src))

StartsWith(text, s) == Len(s) <= Len(text) /\ SubSeq(text, 1, Len(s)) = s

\* the text begins with the word s: s, then whitespace or the end
WordAt(text, s) ==
  /\ StartsWith(text, s)
  /\ Len(text) = Len(s) \/ IsWhitespace(text[Len(s) + 1])

\* the Location the source assigns to byte offset i
TrueLocation(src, i) ==
  LET k == CharsBefore(src, i)
      newlines == {j \in 1..k : src[j] = "\n"}
      lastNl == IF newlines = {} THEN 0
                ELSE CHOOSE j \in newlines : \A m \in newlines : m <= j
  IN  [line |-> Cardinality(newlines), column |-> k - lastNl, index |-> i]

Consistent(src, l) ==
  /\ l.index \in 0..ByteLen(src)
  /\ IsCharBoundary(src, l.index)
  /\ l = TrueLocation(src, l.index)

(***************************************************************************)
(* C1: when a grammar rule returns no-match (Err(None)), location() after  *)
(* the call equals location() before the call: no non-whitespace character *)
(* has been consumed.                                                      *)
(***************************************************************************)
C1_NoMatchLeavesCursor ==
  (last.op \in Rules /\ last.kind = "NoMatch")
  => Location(source, location) = Location(source, last.from)

\* the rules other than parse_decl do leave the cursor on no-match
C1_NoMatchLeavesCursorButDecl ==
  (last.op \in Rules \ {"parse_decl"} /\ last.kind = "NoMatch")
  => Location(source, location) = Location(source, last.from)

(***************************************************************************)
(* C2: a grammar rule whose first token is present at the cursor (its      *)
(* commitment point) never returns no-match; in particular parse_decl on   *)
(* an identifier that is not followed by `(` does not return no-match.     *)
(***************************************************************************)
\* the first token of each rule, read off the text that remains
FirstToken(op, text) ==
  CASE op = "parse_decl" -> text # <<>> /\ CharIsIdent(Head(text))
    [] op = "parse_type" ->
         text # <<>> /\ (Head(text) = "(" \/ CharIsIdent(Head(text)))
    [] op = "parse_fn_type" -> StartsWith(text, <<"(">>)
    [] op = "parse_block" -> StartsWith(text, <<"}">>)
    [] op = "parse_if" -> WordAt(text, <<"i", "f">>)
    [] op = "parse_stmt" ->
         StartsWith(text, <<"}">>) \/ WordAt(text, <<"i", "f">>)
    [] op = "parse_expr_str" -> StartsWith(text, <<"\"">>)
    [] OTHER ->
         text # <<>> /\ (IsNumeric(Head(text)) \/ Head(text) \in {"_", "\""})

C2_CommittedNeverNoMatch ==
  (last.op \in Rules
     /\ FirstToken(last.op, PostWsText(source, last.from.index)))
  => last.kind # "NoMatch"

\* the rules other than parse_decl do not return no-match once committed
C2_CommittedNeverNoMatchButDecl ==
  (last.op \in Rules \ {"parse_decl"}
     /\ FirstToken(last.op, PostWsText(source, last.from.index)))
  => last.kind # "NoMatch"

(***************************************************************************)
(* C3: a hard failure reaches the caller of the outermost rule as it was   *)
(* constructed: a rule that returns Err(Some(e)) constructed exactly one   *)
(* Error, e, and a rule in which an Error was constructed returns it (not  *)
(* no-match, not a Match); an Error with a message of required lies at the *)
(* tokenizer's current location.                                           *)
(***************************************************************************)
\* the messages the callers hand to required
RequiredMessages ==
  {"expected function type", "expected function body", "expected type",
   "Expected statement in block!", "Expected condition", "expected block",
   "expected binary expression: {}"}

C3_HardFailurePropagates ==
  last.op \in Rules
  => /\ last.kind = "Fail" => last.raised = <<last.err>>
     /\ last.raised # <<>> => last.kind = "Fail"
     /\ (last.kind = "Fail" /\ last.err.message.fmt \in RequiredMessages)
          => last.err.location = Location(source, location)

\* the Error of an expect two function types deep, returned by parse_decl
\* through required and optional!
C3_Witness ==
  /\ last.op = "parse_decl"
  /\ last.kind = "Fail"
  /\ last.err.message.fmt = "Expected {s:?}"
  /\ last.from.index = 0
  /\ last.err.location.index >= 4

\* an Error that required constructed for a sub-rule's no-match
C3_WitnessRequired ==
  /\ last.op = "parse_decl"
  /\ last.kind = "Fail"
  /\ last.err.message.fmt = "expected function body"
  /\ last.raised = <<last.err>>

(***************************************************************************)
(* C4: when a grammar rule returns Match the cursor has advanced to the    *)
(* end of the matched text; after parse_expr_str returns a Token the       *)
(* cursor index is the byte offset just past the closing quote and equals  *)
(* the token's span.end.index.                                             *)
(***************************************************************************)
C4_MatchAdvancesCursor ==
  /\ (last.op \in Rules /\ last.kind = "Ok")
       => location.index > PostWsIndex(source, last.from.index)
  /\ (last.op = "parse_expr_str" /\ last.kind = "Ok")
       => /\ location.index = last.val.span.end.index
          /\ location.index \in 2..ByteLen(source)
          /\ IsCharBoundary(source, location.index)
          /\ source[CharsBefore(source, location.index)] = "\""

\* the rules that match no string literal do advance the cursor
C4_MatchAdvancesCursorButStr ==
  (last.op \in Rules \ {"parse_expr_str"} /\ last.kind = "Ok"
     /\ PostWsText(source, last.from.index)[1] # "\"")
  => location.index > PostWsIndex(source, last.from.index)

(***************************************************************************)
(* C5: over any sequence of tokenizer operations on one Tokenizer, the     *)
(* cursor's byte index never decreases from one operation to the next.     *)
(***************************************************************************)
C5_IndexNeverDecreases == [][location'.index >= location.index]_vars

\* a consume that moved the cursor forward from a cursor that had moved
C5_Witness ==
  /\ last.op = "consume"
  /\ last.kind = "Some"
  /\ last.from.index > 0
  /\ location.index > last.from.index

(***************************************************************************)
(* C6: every Token returned by consume, consume_while or consume_word has  *)
(* content byte-identical to the source slice                              *)
(* source[span.start.index .. span.end.index] of its own span.             *)
(***************************************************************************)
C6_ContentIsSourceSlice ==
  (last.op \in {"consume", "consume_while", "consume_word"}
     /\ last.kind = "Some")
  => /\ last.span.start.index <= last.span.end.index
     /\ last.span.end.index <= ByteLen(source)
     /\ Utf8(last.content)
          = SubSeq(Utf8(source), last.span.start.index + 1,
                   last.span.end.index)

\* a token of two characters, one of them of two bytes, that does not start
\* at the start of the source
C6_Witness ==
  /\ last.op \in {"consume", "consume_while", "consume_word"}
  /\ last.kind = "Some"
  /\ last.span.start.index > 0
  /\ Len(last.content) = 2
  /\ ByteLen(last.content) = 3

(***************************************************************************)
(* C7: peek_str(literal) returns a span exactly when the post-whitespace   *)
(* remaining text begins with the whole literal (also when the remaining   *)
(* text is shorter than the literal), and None otherwise; the span covers  *)
(* exactly the literal's bytes; consume(literal) returns a Token in the    *)
(* same cases, over the same span, and leaves the cursor at the span's end.*)
(***************************************************************************)
C7_LiteralMatchIsWhole ==
  LET start == PostWsIndex(source, last.from.index)
      whole == StartsWith(PostWsText(source, last.from.index), last.arg)
  IN  /\ last.op = "peek_str" =>
          /\ last.kind = (IF whole THEN "Some" ELSE "None")
          /\ whole => /\ last.span.start.index = start
                      /\ last.span.end.index = start + ByteLen(last.arg)
      /\ last.op = "consume" =>
          /\ last.kind = (IF whole THEN "Some" ELSE "None")
          /\ whole => /\ last.span.start.index = start
                      /\ last.span.end.index = start + ByteLen(last.arg)
                      /\ location = last.span.end

(***************************************************************************)
(* C8: match_word(literal) is true, and consume_word(literal) returns a    *)
(* Token, exactly when the post-whitespace remaining text begins with the  *)
(* (non-empty) literal and the character right after it is whitespace or   *)
(* the end of input.  On success consume_word leaves the cursor at the end *)
(* of the literal; on failure it leaves location() unchanged.              *)
(***************************************************************************)
C8_WordBoundary ==
  LET start == PostWsIndex(source, last.from.index)
      word == WordAt(PostWsText(source, last.from.index), last.arg)
  IN  /\ last.op = "match_word" =>
          last.kind = (IF word THEN "True" ELSE "False")
      /\ last.op = "consume_word" =>
          /\ last.kind = (IF word THEN "Some" ELSE "None")
          /\ word => /\ location.index = start + ByteLen(last.arg)
                     /\ location = last.span.end
                     /\ last.span.start.index = start
                     /\ last.content = last.arg
          /\ ~word => /\ location.index = start
                      /\ Location(source, location)
                           = Location(source, last.from)

\* `if` consumed before a blank, the blank left in the input
C8_Witness ==
  /\ last.op = "consume_word"
  /\ last.arg = <<"i", "f">>
  /\ last.kind = "Some"
  /\ location.index < ByteLen(source)
  /\ IsWhitespace(Head(SliceFrom(source, location.index)))

\* `if` refused at the start of a longer word
C8_WitnessLongerWord ==
  /\ last.op = "match_word"
  /\ last.arg = <<"i", "f">>
  /\ last.kind = "False"
  /\ StartsWith(PostWsText(source, last.from.index), <<"i", "f">>)

(***************************************************************************)
(* C9: peek operations and failed consumes do not consume input: after     *)
(* peek, peek_while, peek_word, peek_str, match_word, has_more_tokens,     *)
(* cursor, lex_for or cursor_for, and after consume, consume_while or      *)
(* consume_word returning None or expect returning an Error, location()    *)
(* equals location() before the call; the cursor moves at most over the    *)
(* run of whitespace it stood at.                                          *)
(***************************************************************************)
PeekOps ==
  {"peek", "peek_while", "peek_word", "peek_str", "match_word",
   "has_more_tokens", "cursor", "lex_for", "cursor_for"}

NothingConsumed ==
  \/ last.op \in PeekOps
  \/ last.op \in {"consume", "consume_while", "consume_word"}
       /\ last.kind = "None"
  \/ last.op = "expect" /\ last.kind = "Err"

C9_PeekDoesNotConsume ==
  NothingConsumed =>
    /\ Location(source, location) = Location(source, last.from)
    /\ location.index \in
         {last.from.index, PostWsIndex(source, last.from.index)}

\* a peek that found a run of two characters after whitespace
C9_Witness ==
  /\ last.op = "peek_while"
  /\ last.kind = "Some"
  /\ SpanLen(last.span) >= 2
  /\ last.from.index < last.span.start.index
  /\ location = last.span.start

(***************************************************************************)
(* C10: the cursor Location, and the start and end of every Span or Token  *)
(* returned, are consistent with the source: index is a character boundary *)
(* in 0..=len(source), line is the number of newlines before index, and    *)
(* column the number of characters since the last newline before index.    *)
(***************************************************************************)
ReturnsSpan ==
  /\ last.op \in {"peek_while", "peek_word", "peek_str", "consume_while",
                  "consume", "consume_word"}
  /\ last.kind = "Some"

C10_LocationsConsistent ==
  /\ Consistent(source, location)
  /\ ReturnsSpan => /\ Consistent(source, last.span.start)
                    /\ Consistent(source, last.span.end)

\* the same, of the calls that returned
C10_ReturnedLocationsConsistent ==
  /\ Running => Consistent(source, location)
  /\ ReturnsSpan => /\ Consistent(source, last.span.start)
                    /\ Consistent(source, last.span.end)

(***************************************************************************)
(* String literals read off the source text: text is what remains at the   *)
(* cursor after whitespace.                                                *)
(***************************************************************************)
\* the position in text of the quote that closes a literal without escapes,
\* raw newlines and carriage returns; 0 when text opens with no such literal
PlainClose(text) ==
  LET stops == {k \in 2..Len(text) : text[k] \in {"\"", "\\", "\n", "\r"}}
      first == IF stops = {} THEN 0
               ELSE CHOOSE k \in stops : \A j \in stops : k <= j
  IN  IF text # <<>> /\ text[1] = "\"" /\ first # 0 /\ text[first] = "\""
      THEN first ELSE 0

\* the text between the quotes of such a literal
PlainBody(text) == SubSeq(text, 2, PlainClose(text) - 1)

\* the text at the cursor when the latest call was made
TextAtCall == PostWsText(source, last.from.index)

(***************************************************************************)
(* C11: for a string literal without backslash escapes, closed before any  *)
(* raw newline or carriage return, parse_expr_str returns a Token whose    *)
(* content is exactly the text between the quotes, borrowed from the       *)
(* source.                                                                 *)
(***************************************************************************)
C11_PlainLiteralContent ==
  (last.op = "parse_expr_str" /\ PlainClose(TextAtCall) # 0)
  => /\ last.kind = "Ok"
     /\ last.val.content = PlainBody(TextAtCall)
     /\ ~last.val.owned

\* such a literal does yield a borrowed Token, and the right one when its
\* body is empty
C11_PlainLiteralIsBorrowedToken ==
  (last.op = "parse_expr_str" /\ PlainClose(TextAtCall) # 0)
  => /\ last.kind = "Ok"
     /\ ~last.val.owned
     /\ PlainBody(TextAtCall) = <<>> => last.val.content = <<>>

RECURSIVE LiteralScan(_, _)
\* how the literal that opens at text[1] ends, read from position k on:
\* "closed" by a quote, or "open" at a raw newline, a raw carriage return or
\* the end of input; a backslash takes the character after it with it
LiteralScan(text, k) ==
  IF k > Len(text) THEN "open"
  ELSE IF text[k] = "\"" THEN "closed"
  ELSE IF text[k] \in {"\n", "\r"} THEN "open"
  ELSE IF text[k] # "\\" THEN LiteralScan(text, k + 1)
  ELSE IF k = Len(text) \/ text[k + 1] \in {"\n", "\r"} THEN "open"
  ELSE LiteralScan(text, k + 2)

\* text opens with a quote and the literal is not closed
Unterminated(text) ==
  text # <<>> /\ text[1] = "\"" /\ LiteralScan(text, 2) = "open"

(***************************************************************************)
(* C12: when the text at the cursor opens with a quote and a raw newline,  *)
(* a raw carriage return or the end of input comes before a closing quote, *)
(* parse_expr_str returns a hard failure, whatever precedes it.            *)
(***************************************************************************)
C12_UnterminatedIsHardFailure ==
  (last.op = "parse_expr_str" /\ Unterminated(TextAtCall))
  => last.kind = "Fail"

\* it returns neither no-match nor a Token, and a hard failure when no
\* backslash stands in the literal
C12_UnterminatedIsNoToken ==
  (last.op = "parse_expr_str" /\ Unterminated(TextAtCall))
  => /\ last.kind \in {"Fail", "Panic"}
     /\ (\A k \in 1..Len(TextAtCall) : TextAtCall[k] # "\\")
          => last.kind = "Fail"

(***************************************************************************)
(* Type trees read back as text.                                           *)
(***************************************************************************)
RECURSIVE Render(_)
RECURSIVE RenderArgs(_)
\* the text of a Type tree: a name, t `*`, `(` t1 `,` .. `,` tn `)` ret
Render(ty) ==
  CASE ty.t = "Name" -> ty.tok.content
    [] ty.t = "Ptr" -> Render(ty.inner) \o <<"*">>
    [] ty.t = "Func" ->
         <<"(">> \o RenderArgs(ty.fn.args) \o <<")">>
           \o (IF ty.fn.ret.t = "none" THEN <<>> ELSE Render(ty.fn.ret))

RenderArgs(args) ==
  IF args = <<>> THEN <<>>
  ELSE IF Len(args) = 1 THEN Render(args[1])
  ELSE Render(args[1]) \o <<",">> \o RenderArgs(Tail(args))

RECURSIVE WellFormed(_)
\* the trees of the grammar: `*` wraps a name or a pointer only, a name is a
\* non-empty run of identifier characters
WellFormed(ty) ==
  CASE ty.t = "Name" ->
         /\ ty.tok.content # <<>>
         /\ \A k \in 1..Len(ty.tok.content) : CharIsIdent(ty.tok.content[k])
    [] ty.t = "Ptr" -> ty.inner.t \in {"Name", "Ptr"} /\ WellFormed(ty.inner)
    [] ty.t = "Func" ->
         /\ \A k \in 1..Len(ty.fn.args) : WellFormed(ty.fn.args[k])
         /\ ty.fn.ret.t = "none" \/ WellFormed(ty.fn.ret)
    [] OTHER -> FALSE

RECURSIVE PtrDepth(_)
PtrDepth(ty) == IF ty.t = "Ptr" THEN 1 + PtrDepth(ty.inner) ELSE 0

RECURSIVE Canon(_)
\* a text without its whitespace and without a comma that stands before `)`
Canon(text) ==
  IF text = <<>> THEN <<>>
  ELSE IF IsWhitespace(Head(text)) THEN Canon(Tail(text))
  ELSE IF Head(text) = "," /\ Canon(Tail(text)) # <<>>
            /\ Head(Canon(Tail(text))) = ")"
  THEN Canon(Tail(text))
  ELSE <<Head(text)>> \o Canon(Tail(text))

\* the text the latest call took: from the cursor it was made at to the
\* cursor it left
TextTaken ==
  SubSeq(source, CharsBefore(source, last.from.index) + 1,
         CharsBefore(source, location.index))

\* the text that remains at the cursor now
TextLeft == PostWsText(source, location.index)

(***************************************************************************)
(* C13: parse_type returns the Type tree the grammar assigns to the text   *)
(* it took: a name under exactly as many Ptr levels as `*` follow it, or a *)
(* Func with the argument trees in source order, and a ret exactly when a  *)
(* type follows the `)`.                                                   *)
(***************************************************************************)
C13_TypeTree ==
  (last.op = "parse_type" /\ last.kind = "Ok")
  => /\ WellFormed(last.val)
     /\ Render(last.val) = Canon(TextTaken)
     /\ last.val.t \in {"Name", "Ptr"}
          => /\ PtrDepth(last.val)
                  = Cardinality({k \in 1..Len(TextTaken) :
                                   TextTaken[k] = "*"})
             /\ ~StartsWith(TextLeft, <<"*">>)
     /\ (last.val.t = "Func" /\ last.val.fn.ret.t = "none")
          => ~(TextLeft # <<>> /\ (TextLeft[1] = "(" \/ CharIsIdent(TextLeft[1])))

\* `((int,void*)bool,void*)`: two args, the first a function type of two
\* args that returns bool, the second a pointer, and no ret
C13_Witness ==
  /\ last.op = "parse_type"
  /\ last.kind = "Ok"
  /\ last.from.index = 0
  /\ last.val.t = "Func"
  /\ Len(last.val.fn.args) = 2
  /\ last.val.fn.ret.t = "none"
  /\ last.val.fn.args[1].t = "Func"
  /\ Len(last.val.fn.args[1].fn.args) = 2
  /\ last.val.fn.args[1].fn.args[2].t = "Ptr"
  /\ last.val.fn.args[1].fn.ret.tok.content = <<"b", "o", "o", "l">>
  /\ last.val.fn.args[2].t = "Ptr"
  /\ last.val.fn.args[2].inner.tok.content = <<"v", "o", "i", "d">>

\* `int**`: Ptr(Ptr(Name int))
C13_WitnessPointer ==
  /\ last.op = "parse_type"
  /\ last.kind = "Ok"
  /\ source = <<"i", "n", "t", "*", "*">>
  /\ last.val.t = "Ptr"
  /\ last.val.inner.t = "Ptr"
  /\ last.val.inner.inner.t = "Name"
  /\ last.val.inner.inner.tok.content = <<"i", "n", "t">>

\* `(int,char**)int`: two args and ret int
C13_WitnessReturn ==
  /\ last.op = "parse_type"
  /\ last.kind = "Ok"
  /\ last.from.index = 0
  /\ last.val.t = "Func"
  /\ Len(last.val.fn.args) = 2
  /\ last.val.fn.args[1].tok.content = <<"i", "n", "t">>
  /\ PtrDepth(last.val.fn.args[2]) = 2
  /\ last.val.fn.ret.t = "Name"
  /\ last.val.fn.ret.tok.content = <<"i", "n", "t">>

(***************************************************************************)
(* Operator chains read off the source text.  A result is a tree, "none"   *)
(* (no operand at the text), "dangling" (an operator without an operand    *)
(* after it) or "other" (an operand the reading does not cover: a string   *)
(* literal with escapes or without its closing quote).                     *)
(***************************************************************************)
RefResult(kind, tree, rest) == [kind |-> kind, tree |-> tree, rest |-> rest]

RECURSIVE SkipWs(_)
SkipWs(text) ==
  IF text # <<>> /\ IsWhitespace(Head(text)) THEN SkipWs(Tail(text)) ELSE text

RECURSIVE NumberLen(_)
\* the length of the run of digits and underscores text begins with
NumberLen(text) ==
  IF text # <<>> /\ (IsNumeric(Head(text)) \/ Head(text) = "_")
  THEN 1 + NumberLen(Tail(text)) ELSE 0

\* an operand: a number, or a string literal
RefPrimary(text) ==
  LET rest == SkipWs(text)
  IN  IF NumberLen(rest) > 0
      THEN RefResult("tree",
                     [t |-> "Num", s |-> SubSeq(rest, 1, NumberLen(rest))],
                     SubSeq(rest, NumberLen(rest) + 1, Len(rest)))
      ELSE IF rest = <<>> \/ Head(rest) # "\""
      THEN RefResult("none", NoVal, rest)
      ELSE IF PlainClose(rest) # 0
      THEN RefResult("tree", [t |-> "Str"],
                     SubSeq(rest, PlainClose(rest) + 1, Len(rest)))
      ELSE RefResult("other", NoVal, rest)

\* the variant of operator character c at a level, "" when c is no operator
\* of the level
RefVariant(level, c) ==
  CASE level = "cmp" /\ c = "<" -> "Lt"
    [] level = "term" /\ c = "+" -> "Add"
    [] level = "term" /\ c = "-" -> "Sub"
    [] OTHER -> ""

RECURSIVE RefChain(_, _)
RECURSIVE RefFold(_, _, _)
\* an operand of a level: a primary under `+` and `-`, a chain of `+` and
\* `-` under `<`
RefOperand(level, text) ==
  IF level = "cmp" THEN RefChain("term", text) ELSE RefPrimary(text)

\* acc op operand op operand ..: each operator takes what stands before it
\* as its left side
RefFold(level, acc, text) ==
  LET rest == SkipWs(text)
      variant == IF rest = <<>> THEN "" ELSE RefVariant(level, Head(rest))
      operand == RefOperand(level, Tail(rest))
  IN  IF variant = ""
      THEN RefResult("tree", acc, rest)
      ELSE IF operand.kind = "none"
      THEN RefResult("dangling", NoVal, rest)
      ELSE IF operand.kind # "tree"
      THEN operand
      ELSE RefFold(level, [t |-> variant, lhs |-> acc, rhs |-> operand.tree],
                   operand.rest)

RefChain(level, text) ==
  LET first == RefOperand(level, text)
  IN  IF first.kind # "tree" THEN first
      ELSE RefFold(level, first.tree, first.rest)

RECURSIVE Shape(_)
\* an Expr without its spans
Shape(e) ==
  CASE e.t = "Num" -> [t |-> "Num", s |-> e.tok.content]
    [] e.t = "Str" -> [t |-> "Str"]
    [] OTHER -> [t |-> e.t, lhs |-> Shape(e.lhs), rhs |-> Shape(e.rhs)]

\* the level of the rule called last
LevelOf(op) == IF op = "parse_expr_cmp" THEN "cmp" ELSE "term"

(***************************************************************************)
(* C14: parse_expr_term folds a chain of operands joined by `+` and `-`    *)
(* to the left, `+` as Add and `-` as Sub; parse_expr_cmp does the same    *)
(* for `<` over such chains; an operator that no operand follows is a hard *)
(* failure.                                                                *)
(***************************************************************************)
C14_LeftAssociativeFold ==
  last.op \in {"parse_expr_term", "parse_expr_cmp"}
  => /\ RefChain(LevelOf(last.op), TextAtCall).kind = "tree"
          => /\ last.kind = "Ok"
             /\ Shape(last.val) = RefChain(LevelOf(last.op), TextAtCall).tree
     /\ RefChain(LevelOf(last.op), TextAtCall).kind = "dangling"
          => last.kind = "Fail"

\* the same of chains in which no string literal stands
C14_LeftAssociativeFoldOfNumbers ==
  (last.op \in {"parse_expr_term", "parse_expr_cmp"}
     /\ \A k \in 1..Len(TextAtCall) : TextAtCall[k] # "\"")
  => /\ RefChain(LevelOf(last.op), TextAtCall).kind = "tree"
          => /\ last.kind = "Ok"
             /\ Shape(last.val) = RefChain(LevelOf(last.op), TextAtCall).tree
     /\ RefChain(LevelOf(last.op), TextAtCall).kind = "dangling"
          => last.kind = "Fail"

(***************************************************************************)
(* The body of a string literal decoded off the source text.               *)
(***************************************************************************)
\* the character a one-letter escape denotes, "" for any other letter
SimpleEscape(c) ==
  CASE c = "n" -> "\n" [] c = "r" -> "\r" [] c = "t" -> "\t"
    [] c = "\\" -> "\\" [] c = "\"" -> "\"" [] OTHER -> ""

\* text[k..] is `{`, n hex digits, `}`, and the digits name a scalar value
BracedHex(text, k, n) ==
  /\ k + n + 1 <= Len(text)
  /\ text[k] = "{"
  /\ \A j \in 1..n : IsHexDigit(text[k + j])
  /\ text[k + n + 1] = "}"
  /\ FromU32(HexNumber(SubSeq(text, k + 1, k + n), 0)).kind = "Some"

RECURSIVE Decode(_, _, _, _)
\* the literal that opens at text[1], read from position k on: ok when it is
\* closed and every escape in it is one of the grammar, str its body with
\* each escape replaced by its character, escapes the number of escapes
Decode(text, k, str, escapes) ==
  IF k > Len(text) \/ text[k] \in {"\n", "\r"}
  THEN [ok |-> FALSE, str |-> str, escapes |-> escapes]
  ELSE IF text[k] = "\""
  THEN [ok |-> TRUE, str |-> str, escapes |-> escapes]
  ELSE IF text[k] # "\\"
  THEN Decode(text, k + 1, Append(str, text[k]), escapes)
  ELSE IF k = Len(text)
  THEN [ok |-> FALSE, str |-> str, escapes |-> escapes]
  ELSE IF SimpleEscape(text[k + 1]) # ""
  THEN Decode(text, k + 2, Append(str, SimpleEscape(text[k + 1])),
              escapes + 1)
  ELSE IF text[k + 1] = "x" /\ BracedHex(text, k + 2, 2)
  THEN Decode(text, k + 6,
              Append(str, CharOf(HexNumber(SubSeq(text, k + 3, k + 4), 0))),
              escapes + 1)
  ELSE IF text[k + 1] = "u" /\ BracedHex(text, k + 2, 4)
  THEN Decode(text, k + 8,
              Append(str, CharOf(HexNumber(SubSeq(text, k + 3, k + 6), 0))),
              escapes + 1)
  ELSE [ok |-> FALSE, str |-> str, escapes |-> escapes]

\* the literal at the cursor of the latest call, decoded
Decoded ==
  IF TextAtCall # <<>> /\ TextAtCall[1] = "\""
  THEN Decode(TextAtCall, 2, <<>>, 0)
  ELSE [ok |-> FALSE, str |-> <<>>, escapes |-> 0]

(***************************************************************************)
(* C15: for a terminated string literal with escapes, the content that     *)
(* parse_expr_str returns is the body with each escape sequence replaced   *)
(* by the one character it denotes and every other character copied once,  *)
(* in order.                                                               *)
(***************************************************************************)
C15_EscapesDecoded ==
  (last.op = "parse_expr_str" /\ Decoded.ok /\ Decoded.escapes > 0)
  => /\ last.kind = "Ok"
     /\ last.val.content = Decoded.str

\* when the escape stands right after one ordinary character and closes the
\* body, the content is right
C15_EscapesDecodedAfterOneCharacter ==
  (last.op = "parse_expr_str" /\ Decoded.ok /\ Decoded.escapes = 1
     /\ Len(TextAtCall) >= 5
     /\ TextAtCall[2] \notin {"\\", "é"}
     /\ TextAtCall[3] = "\\"
     /\ SimpleEscape(TextAtCall[4]) # ""
     /\ TextAtCall[5] = "\"")
  => /\ last.kind = "Ok"
     /\ last.val.content = Decoded.str
     /\ last.val.owned

(***************************************************************************)
(* The character at which a string literal goes wrong, read off the source *)
(* text.                                                                   *)
(***************************************************************************)
\* the first position from k on, up to k + n - 1, that holds no hex digit;
\* k + n when all do
RECURSIVE FirstNonHex(_, _, _)
FirstNonHex(text, k, n) ==
  IF n = 0 \/ k > Len(text) \/ ~IsHexDigit(text[k]) THEN k
  ELSE FirstNonHex(text, k + 1, n - 1)

\* the position of the offending character of the braced digits at k, 0
\* when they are `{`, n hex digits, `}`
BracedFault(text, k, n) ==
  IF k > Len(text) \/ text[k] # "{" THEN k
  ELSE IF FirstNonHex(text, k + 1, n) < k + 1 + n
  THEN FirstNonHex(text, k + 1, n)
  ELSE IF k + 1 + n > Len(text) \/ text[k + 1 + n] # "}" THEN k + 1 + n
  ELSE 0

RECURSIVE FaultAt(_, _)
\* the position in text of the character at which the literal that opens at
\* text[1] violates the grammar, read from position k on: a raw newline or
\* carriage return, the end of input (Len(text) + 1), or the offending
\* character of a \x or \u escape; 0 when there is none, or an escape letter
\* outside the grammar comes first
FaultAt(text, k) ==
  IF k > Len(text) THEN Len(text) + 1
  ELSE IF text[k] \in {"\n", "\r"} THEN k
  ELSE IF text[k] = "\"" THEN 0
  ELSE IF text[k] # "\\" THEN FaultAt(text, k + 1)
  ELSE IF k = Len(text) THEN Len(text) + 1
  ELSE IF SimpleEscape(text[k + 1]) # "" THEN FaultAt(text, k + 2)
  ELSE IF text[k + 1] \notin {"x", "u"} THEN 0
  ELSE LET n == IF text[k + 1] = "u" THEN 4 ELSE 2
       IN  IF BracedFault(text, k + 2, n) # 0
           THEN BracedFault(text, k + 2, n)
           ELSE FaultAt(text, k + n + 4)

\* the Location of position k of the text at the cursor of the latest call
LocationInText(k) ==
  TrueLocation(source,
               ByteLen(SubSeq(source, 1,
                              Len(source) - Len(TextAtCall) + k - 1)))

(***************************************************************************)
(* C16: the location of a fatal Error is the position of the character at  *)
(* which the expectation was violated: for parse_expr_str the raw newline  *)
(* or carriage return, the end of input for a missing closing quote, the   *)
(* offending character of a malformed \u or \x escape; for expect the      *)
(* cursor location after whitespace.                                       *)
(***************************************************************************)
C16_ErrorLocationIsTheFault ==
  /\ (last.op = "parse_expr_str" /\ last.kind = "Fail")
       => /\ FaultAt(TextAtCall, 2) # 0
          /\ last.err.location = LocationInText(FaultAt(TextAtCall, 2))
  /\ (last.op = "expect" /\ last.kind = "Err")
       => /\ last.err.location = Location(source, last.from)
          /\ last.err.location
               = TrueLocation(source, PostWsIndex(source, last.from.index))

\* the part of expect
C16_ExpectErrorLocation ==
  (last.op = "expect" /\ last.kind = "Err")
  => /\ last.err.location = Location(source, last.from)
     /\ last.err.location
          = TrueLocation(source, PostWsIndex(source, last.from.index))

\* the Error of parse_expr_str is raised where the literal does go wrong,
\* and carries the right location when the fault stands right after the
\* opening quote
C16_ErrorLocationAfterQuote ==
  (last.op = "parse_expr_str" /\ last.kind = "Fail")
  => /\ FaultAt(TextAtCall, 2) # 0
     /\ FaultAt(TextAtCall, 2) = 2
          => last.err.location = LocationInText(2)

(***************************************************************************)
(* C17: every call of a grammar rule or of a tokenizer primitive returns a *)
(* value (Match, no-match or a hard failure; Some, None or Err): no call   *)
(* aborts.                                                                 *)
(***************************************************************************)
C17_NeverAborts == last.kind # "Panic"

\* the calls that abort are those of parse_if, and of parse_stmt,
\* parse_block and parse_decl through it, those that read a string literal,
\* and consume and expect
C17_AbortsOnlyThere ==
  last.kind = "Panic"
  => \/ last.op \in {"consume", "expect"}
     \/ last.op \in {"parse_if", "parse_stmt", "parse_block", "parse_decl"}
     \/ /\ last.op \in {"parse_expr_str", "parse_expr_primary",
                        "parse_expr_term", "parse_expr_cmp"}
        /\ \E k \in 1..Len(TextAtCall) : TextAtCall[k] = "\\"

====
